---- MODULE Spec2Model ----
(***************************************************************************)
(* Model of the stock_spreadsheets batch pipeline (src/api).               *)
(*                                                                         *)
(* Spec         the calls a client can make: main(), combine_and_clean_    *)
(*              sheets() and run_macro_on_workbook(), stepped statement by *)
(*              statement over a small file system and the Excel objects.  *)
(* SpecClean    clean_dataframe applied to bounded row-sets.               *)
(* SpecNumeric  remove_non_numeric_characters applied to bounded tables,   *)
(*              as process_data lines 226-227 call it.                     *)
(* SpecFormat   the ExcelFormatter steps of process_data lines 244-256     *)
(*              applied to bounded sheets.                                 *)
(*                                                                         *)
(* Python raises TypeError at a call whose arguments do not fit the        *)
(* callee's signature, before the callee's body runs.  Two calls of this   *)
(* revision are of that kind: main.py:40-47 passes output_file=,           *)
(* exclusion_file= and macro_file= to combine_and_clean_sheets, whose      *)
(* parameters are output_file_path, exclusion_file_path and                *)
(* macro_file_path; combine_spreadsheets.py:241 passes five arguments to   *)
(* run_macro_on_workbook, which run_macros.py:5 defines with four.  In     *)
(* Spec no run therefore gets past line 241; the steps behind it are in    *)
(* SpecFormat, and the body of run_macro_on_workbook runs in Spec when a   *)
(* client calls it with its four arguments.                                *)
(*                                                                         *)
(* combine_spreadsheets.py:10 imports account_columns from config, and     *)
(* config.py of this revision does not define it; the list is taken from   *)
(* the design document (the account-identifier column).                    *)
(***************************************************************************)
EXTENDS Integers, Sequences, FiniteSets, TLC

\* ---------------------------------------------------------------- bounds
MaxFiles == 3
MaxRows == 2      \* rows of a row-set passed to clean_dataframe
MaxLen == 2       \* length of the generated cell texts
MaxNumLen == 3    \* length of the generated texts of numeric cells
MaxCols == 2      \* columns of the output sheet

\* ------------------------------------------------------- pipeline state
VARIABLES
    entry,            \* the function the client called
    pc,               \* position of the running call
    folder,           \* folder_path on disk: "missing", "file" or "dir"
    exclusion_exists, \* exclusion_file_path exists
    macro_exists,     \* macro_file_path exists
    outdir_exists,    \* output_file_path.parent exists
    entries,          \* folder.iterdir(): the directory entries, in iteration order
    files,            \* process_files: the entries with a valid extension (indices)
    idx,              \* process_files: position of the for loop in files
    all_data,         \* process_files: the row-sets appended so far (entry indices)
    error_log,        \* logging.error records written to error_log.txt
    apps,             \* Excel instances: state of the Dispatch and DispatchEx ones
    macro_workbook,   \* the macro workbook object
    target_workbook,  \* the target workbook object
    output_file,      \* the timestamped output file on disk
    macro_runs,       \* number of Application.Run calls made
    pending,          \* exception in flight inside the running call
    result,           \* what the client got back
    trace,            \* stages executed so far, in order
    faults            \* the external calls that raised so far

pipeVars == <<entry, pc, folder, exclusion_exists, macro_exists, outdir_exists,
              entries, files, idx, all_data, error_log, apps, macro_workbook,
              target_workbook, output_file, macro_runs, pending, result, trace,
              faults>>

\* ------------------------------------------ state of the function calls
VARIABLES
    df,               \* clean_dataframe: the row-set passed in
    prefixes,         \* clean_dataframe: the startsWithColumns argument
    cleaned,          \* clean_dataframe: what the call gave back
    cleaner           \* the module whose clean_dataframe was called

cleanVars == <<df, prefixes, cleaned, cleaner>>

VARIABLES
    main_df,          \* process_data: the combined table before normalisation
    normalized,       \* process_data: main_df as remove_non_numeric_characters left it
    npc               \* number of remove_non_numeric_characters calls made

numVars == <<main_df, normalized, npc>>

VARIABLES
    sheet0,           \* Sheets(1) of the target workbook as it was opened
    ws,               \* Sheets(1) of the target workbook in Excel
    disk,             \* the sheet in the output file on disk
    fpc,              \* position in the formatting steps of process_data
    ferr,             \* the exception a formatting step raised
    pct_calls         \* number of format_percentage_columns calls made

fmtVars == <<sheet0, ws, disk, fpc, ferr, pct_calls>>

fnVars == <<cleanVars, numVars, fmtVars>>

vars == <<pipeVars, fnVars>>

\* ------------------------------------------------------------ constants
valid_extensions == {".xlsx", ".csv"}

\* suffixes a directory entry may carry; ".CSV" lowers to ".csv"
Suffixes == {".xlsx", ".csv", ".CSV", ".txt"}

lower(s) == IF s = ".CSV" THEN ".csv" ELSE s

\* a directory entry: its suffix and whether read_excel/read_csv followed by
\* clean_dataframe goes through on it
Entry == [suffix : Suffixes, loads : BOOLEAN]

SeqsUpTo(S, n) == UNION {[1..k -> S] : k \in 0..n}

NoError == "none"

\* ----------------------------------------------------------------- helpers
RECURSIVE SelectIdx(_, _, _)
\* [f for f in folder.iterdir() if f.suffix.lower() in valid_extensions]
SelectIdx(es, i, acc) ==
    IF i > Len(es) THEN acc
    ELSE SelectIdx(es, i + 1,
                   IF lower(es[i].suffix) \in valid_extensions
                   THEN Append(acc, i) ELSE acc)

\* variant of validate_inputs without the output-directory check of lines 74-75
validate_inputs_no_outdir(f, ex, mc, od) ==
    IF f = "missing" THEN "Input folder not found"
    ELSE IF ~ex THEN "Exclusion file not found"
    ELSE IF ~mc THEN "Macro file not found"
    ELSE NoError

\* validate_inputs: the message of the ValueError raised, or NoError
validate_inputs(f, ex, mc, od) ==
    IF f = "missing" THEN "Input folder not found"
    ELSE IF ~ex THEN "Exclusion file not found"
    ELSE IF ~mc THEN "Macro file not found"
    ELSE IF ~od THEN "Output directory does not exist"
    ELSE NoError

\* workbook.Close(SaveChanges=False) guarded by "is not None" and try/except
CloseNoSave(wb) == IF wb = "none" THEN "none" ELSE "closed_nosave"

\* ---------------------------------------------------------------- Init
PipeInit ==
    /\ entry = "none"
    /\ pc = "idle"
    /\ folder \in {"missing", "file", "dir"}
    /\ exclusion_exists \in BOOLEAN
    /\ macro_exists \in BOOLEAN
    /\ outdir_exists \in BOOLEAN
    /\ entries \in SeqsUpTo(Entry, MaxFiles)
    /\ (folder # "dir" => entries = <<>>)
    /\ files = <<>>
    /\ idx = 0
    /\ all_data = <<>>
    /\ error_log = <<>>
    /\ apps = [k \in {"Dispatch", "DispatchEx"} |-> "none"]
    /\ macro_workbook = "none"
    /\ target_workbook = "none"
    /\ output_file = "absent"
    /\ macro_runs = 0
    /\ pending = NoError
    /\ result = "none"
    /\ trace = <<>>
    /\ faults = {}

\* the function-level variables while the pipeline runs
CleanIdle ==
    /\ df = [cols |-> {}, rows |-> <<>>]
    /\ prefixes = <<>>
    /\ cleaned = [done |-> FALSE, err |-> FALSE, rows |-> <<>>]
    /\ cleaner = "none"

NumIdle ==
    /\ main_df = [cols |-> {}, rows |-> <<>>]
    /\ normalized = [cols |-> {}, rows |-> <<>>]
    /\ npc = 0

EmptySheet == [headers |-> <<>>, data |-> <<>>, fmt |-> <<>>, autofit |-> {},
               frozen |-> FALSE]

FmtIdle ==
    /\ sheet0 = EmptySheet /\ ws = EmptySheet /\ disk = EmptySheet
    /\ fpc = "idle" /\ ferr = NoError /\ pct_calls = 0

Init == PipeInit /\ CleanIdle /\ NumIdle /\ FmtIdle

fsVars == <<folder, exclusion_exists, macro_exists, outdir_exists, entries>>
loadVars == <<files, idx, all_data>>
xlVars == <<apps, macro_workbook, target_workbook, output_file, macro_runs>>

\* ------------------------------------------------------------- main.py
\* main(): the keyword call of lines 40-47 names parameters that
\* combine_and_clean_sheets does not have, so the call raises TypeError
main ==
    /\ pc = "idle"
    /\ entry' = "main"
    /\ result' = "TypeError: unexpected keyword argument 'output_file'"
    /\ pc' = "done"
    /\ trace' = Append(trace, "main")
    /\ UNCHANGED <<fsVars, loadVars, xlVars, error_log, pending>>
    /\ UNCHANGED faults
    /\ UNCHANGED fnVars

\* ------------------------------------------- combine_and_clean_sheets
\* a client calls combine_and_clean_sheets with matching arguments
call_combine_and_clean_sheets ==
    /\ pc = "idle"
    /\ entry' = "combine_and_clean_sheets"
    /\ pc' = "validate_inputs"
    /\ trace' = Append(trace, "combine_and_clean_sheets")
    /\ UNCHANGED <<fsVars, loadVars, xlVars, error_log, pending, result>>
    /\ UNCHANGED faults
    /\ UNCHANGED fnVars

\* line 105
do_validate_inputs ==
    /\ pc = "validate_inputs"
    /\ LET e == validate_inputs(folder, exclusion_exists, macro_exists, outdir_exists)
       IN /\ pending' = e
          /\ pc' = IF e = NoError THEN "process_files" ELSE "combine_except"
    /\ trace' = Append(trace, "validate_inputs")
    /\ UNCHANGED <<entry, fsVars, loadVars, xlVars, error_log, result>>
    /\ UNCHANGED faults
    /\ UNCHANGED fnVars

\* process_files, lines 146-153: list the folder, keep the valid extensions
process_files_list ==
    /\ pc = "process_files"
    /\ trace' = Append(trace, "process_files")
    /\ IF folder = "file"
       THEN /\ pending' = "NotADirectoryError"
            /\ pc' = "combine_except"
            /\ UNCHANGED <<files, idx>>
       ELSE LET fl == SelectIdx(entries, 1, <<>>)
            IN /\ files' = fl
               /\ IF fl = <<>>
                  THEN /\ pending' = "No valid files found in folder"
                       /\ pc' = "combine_except"
                       /\ UNCHANGED idx
                  ELSE /\ pending' = NoError
                       /\ pc' = "process_files_loop"
                       /\ idx' = 1
    /\ UNCHANGED <<entry, fsVars, all_data, xlVars, error_log, result>>
    /\ UNCHANGED faults
    /\ UNCHANGED fnVars

\* variant of process_files_iter whose except clause re-raises instead of
\* continuing with the next file
process_files_iter_abort ==
    /\ pc = "process_files_loop"
    /\ idx <= Len(files)
    /\ IF entries[files[idx]].loads
       THEN /\ all_data' = Append(all_data, files[idx])
            /\ UNCHANGED <<error_log, pending, pc>>
       ELSE /\ error_log' = Append(error_log, <<"process_files", files[idx]>>)
            /\ pending' = "read error"
            /\ pc' = "combine_except"
            /\ UNCHANGED all_data
    /\ idx' = idx + 1
    /\ UNCHANGED <<entry, fsVars, files, xlVars, result, trace>>
    /\ UNCHANGED faults
    /\ UNCHANGED fnVars

\* process_files, lines 155-188: one iteration of the for loop
process_files_iter ==
    /\ pc = "process_files_loop"
    /\ idx <= Len(files)
    /\ IF entries[files[idx]].loads
       THEN /\ all_data' = Append(all_data, files[idx])
            /\ UNCHANGED error_log
       ELSE /\ error_log' = Append(error_log, <<"process_files", files[idx]>>)
            /\ UNCHANGED all_data
    /\ idx' = idx + 1
    /\ UNCHANGED <<entry, pc, fsVars, files, xlVars, pending, result, trace>>
    /\ UNCHANGED faults
    /\ UNCHANGED fnVars

\* variant of process_files_return without the emptiness check of lines 108-109
process_files_return_nocheck ==
    /\ pc = "process_files_loop"
    /\ idx > Len(files)
    /\ pending' = NoError
    /\ pc' = "excel_application"
    /\ UNCHANGED <<entry, fsVars, loadVars, xlVars, error_log, result, trace>>
    /\ UNCHANGED faults
    /\ UNCHANGED fnVars

\* process_files line 190 and combine_and_clean_sheets lines 107-109
process_files_return ==
    /\ pc = "process_files_loop"
    /\ idx > Len(files)
    /\ IF all_data = <<>>
       THEN /\ pending' = "No valid files were found to process"
            /\ pc' = "combine_except"
       ELSE /\ pending' = NoError
            /\ pc' = "excel_application"
    /\ UNCHANGED <<entry, fsVars, loadVars, xlVars, error_log, result, trace>>
    /\ UNCHANGED faults
    /\ UNCHANGED fnVars

\* excel_application, lines 34-37, entered by the with of line 112
excel_application_enter ==
    /\ pc = "excel_application"
    /\ apps' = [apps EXCEPT !["Dispatch"] = "visible"]
    /\ pc' = "process_data"
    /\ trace' = Append(trace, "excel_application")
    /\ UNCHANGED <<entry, fsVars, loadVars, macro_workbook, target_workbook,
                   output_file, macro_runs, error_log, pending, result>>
    /\ UNCHANGED faults
    /\ UNCHANGED fnVars

\* process_data lines 223-234: combine, normalise, write the timestamped file
process_data_write ==
    /\ pc = "process_data"
    /\ \E ok \in BOOLEAN :
         IF ok
         THEN /\ UNCHANGED faults
              /\ output_file' = "written"
              /\ pc' = "open_macro"
              /\ UNCHANGED pending
         ELSE /\ faults' = faults \cup {"write"}
              /\ pending' = "OSError"
              /\ pc' = "process_data_except"
              /\ UNCHANGED output_file
    /\ trace' = Append(trace, "write")
    /\ UNCHANGED <<entry, fsVars, loadVars, apps, macro_workbook, target_workbook,
                   macro_runs, error_log, result>>
    /\ UNCHANGED fnVars

\* process_data line 237
process_data_open_macro ==
    /\ pc = "open_macro"
    /\ \E ok \in BOOLEAN :
         IF ok
         THEN /\ UNCHANGED faults
              /\ macro_workbook' = "open"
              /\ pc' = "open_target"
              /\ UNCHANGED pending
         ELSE /\ faults' = faults \cup {"open_macro"}
              /\ pending' = "com_error: Open macro workbook"
              /\ pc' = "process_data_except"
              /\ UNCHANGED macro_workbook
    /\ trace' = Append(trace, "open_macro")
    /\ UNCHANGED <<entry, fsVars, loadVars, apps, target_workbook, output_file,
                   macro_runs, error_log, result>>
    /\ UNCHANGED fnVars

\* process_data line 238
process_data_open_target ==
    /\ pc = "open_target"
    /\ \E ok \in BOOLEAN :
         IF ok
         THEN /\ UNCHANGED faults
              /\ target_workbook' = "open"
              /\ pc' = "call_run_macro"
              /\ UNCHANGED pending
         ELSE /\ faults' = faults \cup {"open_target"}
              /\ pending' = "com_error: Open target workbook"
              /\ pc' = "process_data_except"
              /\ UNCHANGED target_workbook
    /\ trace' = Append(trace, "open_target")
    /\ UNCHANGED <<entry, fsVars, loadVars, apps, macro_workbook, output_file,
                   macro_runs, error_log, result>>
    /\ UNCHANGED fnVars

\* process_data line 241: five arguments to the four-parameter
\* run_macro_on_workbook of run_macros.py:5; the call raises TypeError and
\* lines 243-258 (format, save, return) are not reached
process_data_call_run_macro ==
    /\ pc = "call_run_macro"
    /\ pending' = "TypeError: run_macro_on_workbook() takes 4 positional arguments but 5 were given"
    /\ pc' = "process_data_except"
    /\ trace' = Append(trace, "call_run_macro")
    /\ UNCHANGED <<entry, fsVars, loadVars, xlVars, error_log, result>>
    /\ UNCHANGED faults
    /\ UNCHANGED fnVars

\* process_data lines 260-276: log, close both workbooks discarding changes,
\* raise ValueError from the error
process_data_except ==
    /\ pc = "process_data_except"
    /\ error_log' = Append(error_log, <<"process_data", pending>>)
    /\ macro_workbook' = CloseNoSave(macro_workbook)
    /\ target_workbook' = CloseNoSave(target_workbook)
    /\ pending' = "Failed to process data"
    /\ pc' = "process_data_finally"
    /\ UNCHANGED <<entry, fsVars, loadVars, apps, output_file, macro_runs,
                   result, trace>>
    /\ UNCHANGED faults
    /\ UNCHANGED fnVars

\* process_data lines 278-284
process_data_finally ==
    /\ pc = "process_data_finally"
    /\ macro_workbook' = CloseNoSave(macro_workbook)
    /\ pc' = "excel_application_exit"
    /\ UNCHANGED <<entry, fsVars, loadVars, apps, target_workbook, output_file,
                   macro_runs, error_log, pending, result, trace>>
    /\ UNCHANGED faults
    /\ UNCHANGED fnVars

\* excel_application lines 38-40 with quit_on_exit=False (line 112)
excel_application_exit ==
    /\ pc = "excel_application_exit"
    /\ pc' = IF pending = NoError THEN "done" ELSE "combine_except"
    /\ UNCHANGED <<entry, fsVars, loadVars, xlVars, error_log, pending, result, trace>>
    /\ UNCHANGED faults
    /\ UNCHANGED fnVars

\* combine_and_clean_sheets lines 124-126: log and re-raise
combine_except ==
    /\ pc = "combine_except"
    /\ error_log' = Append(error_log, <<"combine_and_clean_sheets", pending>>)
    /\ result' = pending
    /\ pc' = "done"
    /\ UNCHANGED <<entry, fsVars, loadVars, xlVars, pending, trace>>
    /\ UNCHANGED faults
    /\ UNCHANGED fnVars

\* ------------------------------------------------------- run_macros.py
\* a client calls run_macro_on_workbook with its four arguments
call_run_macro_on_workbook ==
    /\ pc = "idle"
    /\ entry' = "run_macro_on_workbook"
    /\ pc' = "rm_dispatch"
    /\ trace' = Append(trace, "run_macro_on_workbook")
    /\ UNCHANGED <<fsVars, loadVars, xlVars, error_log, pending, result>>
    /\ UNCHANGED faults
    /\ UNCHANGED fnVars

\* line 8: a new Excel instance; line 9 (Visible = True) is commented out
rm_dispatch ==
    /\ pc = "rm_dispatch"
    /\ apps' = [apps EXCEPT !["DispatchEx"] = "hidden"]
    /\ pc' = "rm_open_macro"
    /\ UNCHANGED <<entry, fsVars, loadVars, macro_workbook, target_workbook,
                   output_file, macro_runs, error_log, pending, result, trace>>
    /\ UNCHANGED faults
    /\ UNCHANGED fnVars

\* line 13
rm_open_macro ==
    /\ pc = "rm_open_macro"
    /\ \E ok \in BOOLEAN :
         IF ok
         THEN /\ UNCHANGED faults
              /\ macro_workbook' = "open"
              /\ pc' = "rm_open_target"
              /\ UNCHANGED pending
         ELSE /\ faults' = faults \cup {"open_macro"}
              /\ pending' = "com_error: Open macro workbook"
              /\ pc' = "rm_except"
              /\ UNCHANGED macro_workbook
    /\ trace' = Append(trace, "open_macro")
    /\ UNCHANGED <<entry, fsVars, loadVars, apps, target_workbook, output_file,
                   macro_runs, error_log, result>>
    /\ UNCHANGED fnVars

\* line 16: binds the module global target_workbook
rm_open_target ==
    /\ pc = "rm_open_target"
    /\ \E ok \in BOOLEAN :
         IF ok
         THEN /\ UNCHANGED faults
              /\ target_workbook' = "open"
              /\ pc' = "rm_run"
              /\ UNCHANGED pending
         ELSE /\ faults' = faults \cup {"open_target"}
              /\ pending' = "com_error: Open target workbook"
              /\ pc' = "rm_except"
              /\ UNCHANGED target_workbook
    /\ trace' = Append(trace, "open_target")
    /\ UNCHANGED <<entry, fsVars, loadVars, apps, macro_workbook, output_file,
                   macro_runs, error_log, result>>
    /\ UNCHANGED fnVars

\* lines 19-20: excel.Application.Run(full_macro_name, exclusion_file_path)
rm_run ==
    /\ pc = "rm_run"
    /\ macro_runs' = macro_runs + 1
    /\ \E ok \in BOOLEAN :
         IF ok
         THEN /\ UNCHANGED faults
              /\ pc' = "rm_save"
              /\ UNCHANGED pending
         ELSE /\ faults' = faults \cup {"run"}
              /\ pending' = "com_error: Run"
              /\ pc' = "rm_except"
    /\ trace' = Append(trace, "run_macro")
    /\ UNCHANGED <<entry, fsVars, loadVars, apps, macro_workbook, target_workbook,
                   output_file, error_log, result>>
    /\ UNCHANGED fnVars

\* lines 23-26: save the target, close the macro workbook (no SaveChanges
\* argument), quit the instance
rm_save ==
    /\ pc = "rm_save"
    /\ \E ok \in BOOLEAN :
         IF ok
         THEN /\ UNCHANGED faults
              /\ output_file' = "saved"
              /\ macro_workbook' = "closed"
              /\ apps' = [apps EXCEPT !["DispatchEx"] = "quit"]
              /\ pc' = "rm_finally"
              /\ UNCHANGED pending
         ELSE /\ faults' = faults \cup {"save"}
              /\ pending' = "com_error: Save"
              /\ pc' = "rm_except"
              /\ UNCHANGED <<output_file, macro_workbook, apps>>
    /\ trace' = Append(trace, "save")
    /\ UNCHANGED <<entry, fsVars, loadVars, target_workbook, macro_runs,
                   error_log, result>>
    /\ UNCHANGED fnVars

\* lines 27-29: print the error and close the target; the error is not
\* raised again.  When line 16 was not reached the global target_workbook
\* is unbound and line 29 raises NameError
rm_except ==
    /\ pc = "rm_except"
    /\ IF target_workbook = "none"
       THEN /\ pending' = "NameError: name 'target_workbook' is not defined"
            /\ UNCHANGED target_workbook
       ELSE /\ pending' = NoError
            /\ target_workbook' = "closed_nosave"
    /\ pc' = "rm_finally"
    /\ UNCHANGED <<entry, fsVars, loadVars, apps, macro_workbook, output_file,
                   macro_runs, error_log, result, trace>>
    /\ UNCHANGED faults
    /\ UNCHANGED fnVars

\* lines 30-34: del target_workbook (NameError when unbound), del excel
rm_finally ==
    /\ pc = "rm_finally"
    /\ result' = IF target_workbook = "none"
                 THEN "NameError: name 'target_workbook' is not defined"
                 ELSE IF pending = NoError THEN "returned" ELSE pending
    /\ pc' = "done"
    /\ UNCHANGED <<entry, fsVars, loadVars, xlVars, error_log, pending, trace>>
    /\ UNCHANGED faults
    /\ UNCHANGED fnVars

Next ==
    \/ main
    \/ call_run_macro_on_workbook
    \/ rm_dispatch
    \/ rm_open_macro
    \/ rm_open_target
    \/ rm_run
    \/ rm_save
    \/ rm_except
    \/ rm_finally
    \/ call_combine_and_clean_sheets
    \/ do_validate_inputs
    \/ process_files_list
    \/ process_files_iter
    \/ process_files_return
    \/ excel_application_enter
    \/ process_data_write
    \/ process_data_open_macro
    \/ process_data_open_target
    \/ process_data_call_run_macro
    \/ process_data_except
    \/ process_data_finally
    \/ excel_application_exit
    \/ combine_except

Spec == Init /\ [][Next]_vars

\* ------------------------------------------------------------ cell values
\* a cell of a pandas column or of a worksheet: a text, a number m / 10^e
\* (kept with e smallest), or blank (NaN / None)
Str(s) == [t |-> "str", s |-> s, m |-> 0, e |-> 0]
Num(m, e) == [t |-> "num", s |-> <<>>, m |-> m, e |-> e]
NaN == [t |-> "nan", s |-> <<>>, m |-> 0, e |-> 0]

\* str.startswith(prefix), case-sensitive
startswith(s, p) == Len(p) <= Len(s) /\ SubSeq(s, 1, Len(p)) = p

RECURSIVE lstrip(_)
lstrip(s) == IF s # <<>> /\ Head(s) = " " THEN lstrip(Tail(s)) ELSE s

RECURSIVE rstrip(_)
rstrip(s) == IF s # <<>> /\ s[Len(s)] = " " THEN rstrip(SubSeq(s, 1, Len(s) - 1)) ELSE s

\* variant of strip that trims the left side only
strip_left_only(s) == lstrip(s)

\* str.strip()
strip(s) == rstrip(lstrip(s))

\* config.py:26
startsWithColumns == <<<<"T", "h", "e", " ", "d", "a", "t", "a", " ", "a", "n", "d", " ", "i", "n", "f", "o", "r", "m", "a", "t", "i", "o", "n">>,
                       <<"B", "r", "o", "k", "e", "r", "a", "g", "e", " ", "s", "e", "r", "v", "i", "c", "e", "s", " ", "a", "r", "e">>,
                       <<"D", "a", "t", "e", " ", "d", "o", "w", "n", "l", "o", "a", "d", "e", "d">>>>

\* -------------------------------------------------------- clean_dataframe
Column(rows, c) == [i \in DOMAIN rows |-> rows[i][c]]

\* dtype of a column as read_csv / read_excel infer it: object when the
\* column holds a text (or the table has no rows), numeric otherwise
ObjectCols(d) ==
    {c \in d.cols : d.rows = <<>> \/ \E i \in DOMAIN d.rows : d.rows[i][c].t = "str"}

\* Series.str on a column: pandas raises AttributeError ("Can only use .str
\* accessor with string values") unless the column is of object dtype and
\* its non-blank values are not all numbers
StrAccessorOK(cells, isObject) ==
    /\ isObject
    /\ \/ \A i \in DOMAIN cells : cells[i].t # "num"
       \/ \E i \in DOMAIN cells : cells[i].t = "str"

\* ~Series.str.startswith(prefix, na=False): non-text cells give NaN, read as False
KeepRow(cell, p) == ~(cell.t = "str" /\ startswith(cell.s, p))

\* Series.str.strip(): text is trimmed, any other value becomes NaN
StripCell(cell) == IF cell.t = "str" THEN Str(strip(cell.s)) ELSE NaN

RECURSIVE FilterPrefixes(_, _, _)
\* lines 327-328: the loop over the prefixes; err when .str raises
FilterPrefixes(rows, ps, isObject) ==
    IF ps = <<>> THEN [err |-> FALSE, rows |-> rows]
    ELSE IF ~StrAccessorOK(Column(rows, "Account Number"), isObject)
         THEN [err |-> TRUE, rows |-> rows]
         ELSE FilterPrefixes(SelectSeq(rows, LAMBDA r : KeepRow(r["Account Number"], Head(ps))),
                             Tail(ps), isObject)

\* clean_dataframe(df, startsWithColumns), lines 326-333
clean_dataframe(d, ps) ==
    LET obj == ObjectCols(d)
        f == IF "Account Number" \in d.cols
             THEN FilterPrefixes(d.rows, ps, "Account Number" \in obj)
             ELSE [err |-> FALSE, rows |-> d.rows]
    IN IF f.err THEN [done |-> TRUE, err |-> TRUE, rows |-> <<>>]
       ELSE IF \E c \in obj : ~StrAccessorOK(Column(f.rows, c), TRUE)
       THEN [done |-> TRUE, err |-> TRUE, rows |-> <<>>]
       ELSE [done |-> TRUE, err |-> FALSE,
             rows |-> [i \in DOMAIN f.rows |->
                         [c \in d.cols |-> IF c \in obj THEN StripCell(f.rows[i][c])
                                           ELSE f.rows[i][c]]]]

\* ---- the row-sets and prefix lists clean_dataframe is called with
Chars == {"D", "d", " "}

Texts(n) == UNION {[1..k -> Chars] : k \in 0..n}

AcctSample == {Str(<<"D", "d">>), Str(<<" ", "d">>), Num(12345, 0), NaN,
               Str(<<"B", "r", "o", "k", "e", "r", "a", "g", "e", " ", "s", "e", "r", "v", "i", "c", "e", "s", " ", "a", "r", "e", " ", "x">>),
               Str(<<"d", "a", "t", "e", " ", "d", "o", "w", "n", "l", "o", "a", "d", "e", "d">>)}

AcctCells == {Str(s) : s \in Texts(MaxLen)} \cup AcctSample

SymCells == {Str(<<"x", " ">>), Num(5, 0), NaN}

PrefixLists == {<<>>, << <<"D">> >>, << <<"d">>, <<"D", "d">> >>, startsWithColumns}

\* the row-sets of at most n rows; in the one-column ones the first row ranges
\* over all the cells and the rows after it over the samples
RowSets(n) ==
    UNION {
      {[cols |-> {"Account Number"}, rows |-> r] :
          r \in {<<>>} \cup
                {<<a>> \o rest : a \in [{"Account Number"} -> AcctCells],
                                 rest \in SeqsUpTo([{"Account Number"} -> AcctSample], n - 1)}},
      {[cols |-> {"Account Number", "Symbol"}, rows |-> r] :
          r \in SeqsUpTo({[c \in {"Account Number", "Symbol"} |->
                             IF c = "Symbol" THEN y ELSE a] :
                            a \in AcctSample, y \in SymCells}, n)},
      {[cols |-> {"Symbol"}, rows |-> r] :
          r \in SeqsUpTo([{"Symbol"} -> SymCells], n)} }

CleanInit ==
    /\ df \in RowSets(MaxRows)
    /\ prefixes \in PrefixLists
    /\ cleaned = [done |-> FALSE, err |-> FALSE, rows |-> <<>>]
    /\ cleaner = "none"

\* a caller applies clean_dataframe to (df, prefixes), as process_files line 163 does
call_clean_dataframe ==
    /\ ~cleaned.done
    /\ cleaned' = clean_dataframe(df, prefixes)
    /\ cleaner' = "combine_spreadsheets"
    /\ UNCHANGED <<df, prefixes, pipeVars, numVars, fmtVars>>

\* utils.clean_dataframe(df, exclude_patterns), lines 125-137: the statements
\* of combine_spreadsheets.clean_dataframe inside a try whose except clause
\* logs the exception and raises it again
utils_clean_dataframe(d, exclude_patterns) == clean_dataframe(d, exclude_patterns)

\* a caller applies the clean_dataframe of utils.py to (df, prefixes)
call_utils_clean_dataframe ==
    /\ ~cleaned.done
    /\ cleaned' = utils_clean_dataframe(df, prefixes)
    /\ cleaner' = "utils"
    /\ UNCHANGED <<df, prefixes, pipeVars, numVars, fmtVars>>

PipeIdle ==
    /\ entry = "none" /\ pc = "idle"
    /\ folder = "dir" /\ exclusion_exists = TRUE /\ macro_exists = TRUE
    /\ outdir_exists = TRUE
    /\ entries = <<>> /\ files = <<>> /\ idx = 0 /\ all_data = <<>>
    /\ error_log = <<>>
    /\ apps = [k \in {"Dispatch", "DispatchEx"} |-> "none"]
    /\ macro_workbook = "none" /\ target_workbook = "none"
    /\ output_file = "absent" /\ macro_runs = 0
    /\ pending = NoError /\ result = "none" /\ trace = <<>> /\ faults = {}

CleanNext == call_clean_dataframe \/ call_utils_clean_dataframe

InitClean == CleanInit /\ PipeIdle /\ NumIdle /\ FmtIdle

SpecClean == InitClean /\ [][CleanNext]_vars

\* ------------------------------------------ remove_non_numeric_characters
\* config.py:22-24
numeric_columns == <<"Last Price", "Last Price Change", "Current Value",
                     "Today's Gain/Loss Dollar", "Total Gain/Loss Dollar",
                     "Cost Basis Total", "Average Cost Basis">>
percentage_columns == <<"Today's Gain/Loss Percent", "Total Gain/Loss Percent",
                        "Percent Of Account">>

Digits == {"0", "1", "2", "3", "4", "5", "6", "7", "8", "9"}

DigitVal(c) == CASE c = "0" -> 0 [] c = "1" -> 1 [] c = "2" -> 2 [] c = "3" -> 3
                 [] c = "4" -> 4 [] c = "5" -> 5 [] c = "6" -> 6 [] c = "7" -> 7
                 [] c = "8" -> 8 [] c = "9" -> 9

\* variant of StripNonNumeric whose character class also keeps the comma
StripNonNumeric_keep_comma(s) ==
    SelectSeq(s, LAMBDA c : c \in Digits \cup {".", "-", ","})

\* .replace(r"[^\d.-]", "", regex=True) on a text
StripNonNumeric(s) == SelectSeq(s, LAMBDA c : c \in Digits \cup {".", "-"})

RECURSIVE DigitsToInt(_, _)
DigitsToInt(ds, acc) ==
    IF ds = <<>> THEN acc ELSE DigitsToInt(Tail(ds), acc * 10 + DigitVal(Head(ds)))

RECURSIVE Normal(_, _)
\* m / 10^e with the smallest e
Normal(m, e) == IF e > 0 /\ m % 10 = 0 THEN Normal(m \div 10, e - 1) ELSE Num(m, e)

\* variant of ToNumeric that fills an unparseable text with zero
ToNumeric_fill_zero(s) ==
    LET neg == s # <<>> /\ Head(s) = "-"
        body == IF neg THEN Tail(s) ELSE s
        dots == {i \in DOMAIN body : body[i] = "."}
        digs == SelectSeq(body, LAMBDA c : c \in Digits)
    IN IF \/ \E i \in DOMAIN body : body[i] \notin Digits \cup {"."}
          \/ Cardinality(dots) > 1
          \/ digs = <<>>
       THEN Num(0, 0)
       ELSE LET frac == IF dots = {} THEN 0 ELSE Len(body) - (CHOOSE i \in dots : TRUE)
                mant == DigitsToInt(digs, 0)
            IN Normal(IF neg THEN 0 - mant ELSE mant, frac)

\* pd.to_numeric(text, errors="coerce") on a text of digits, periods and
\* minus signs: an optional leading minus, digits with at most one period
\* and at least one digit give the number; anything else gives NaN
ToNumeric(s) ==
    LET neg == s # <<>> /\ Head(s) = "-"
        body == IF neg THEN Tail(s) ELSE s
        dots == {i \in DOMAIN body : body[i] = "."}
        digs == SelectSeq(body, LAMBDA c : c \in Digits)
    IN IF \/ \E i \in DOMAIN body : body[i] \notin Digits \cup {"."}
          \/ Cardinality(dots) > 1
          \/ digs = <<>>
       THEN NaN
       ELSE LET frac == IF dots = {} THEN 0 ELSE Len(body) - (CHOOSE i \in dots : TRUE)
                mant == DigitsToInt(digs, 0)
            IN Normal(IF neg THEN 0 - mant ELSE mant, frac)

\* one cell of a selected column: texts are stripped and parsed, numbers and
\* blanks pass through
NormalizeCell(cell) ==
    IF cell.t = "str" THEN ToNumeric(StripNonNumeric(cell.s)) ELSE cell

\* remove_non_numeric_characters(df, columns), lines 296-305
remove_non_numeric_characters(d, columns) ==
    LET present_columns == {columns[k] : k \in DOMAIN columns} \cap d.cols
    IN IF present_columns = {} THEN d
       ELSE [cols |-> d.cols,
             rows |-> [i \in DOMAIN d.rows |->
                         [c \in d.cols |-> IF c \in present_columns
                                           THEN NormalizeCell(d.rows[i][c])
                                           ELSE d.rows[i][c]]]]

\* ---- the combined tables remove_non_numeric_characters is called with
NumChars == {"1", ".", "-", "$"}

NumExamples == {<<"$", "1", ",", "2", "3", "4", ".", "5", "6">>,
                <<"N", "/", "A">>,
                <<"1", "-", "2">>,
                <<"1", ".", "2", ".", "3">>,
                <<"-", "1", ".", "5", "0">>,
                <<"0">>,
                <<"$", "0", ".", "0", "0">>,
                <<"(", "1", ".", "5", ")">>,
                <<"1", "e", "5">>}

NumCells == {Str(x) : x \in UNION {[1..k -> NumChars] : k \in 0..MaxNumLen}}
            \cup {Str(x) : x \in NumExamples} \cup {Num(25, 1), NaN}

NumSample == {Str(<<"1", "2", ".", "5", "%">>), Str(<<"N", "/", "A">>), Num(25, 1)}

TableCols == {{"Last Price"}, {"Last Price", "Symbol"}, {"Symbol"},
              {"Last Price", "Percent Of Account", "Symbol"},
              {"Percent Of Account"}}

\* a row over the columns cs with the given cells
TableRow(cs, price, pct, sym) ==
    [c \in cs |-> IF c = "Last Price" THEN price
                  ELSE IF c = "Percent Of Account" THEN pct ELSE sym]

\* the tables of at most n rows: the first row ranges over all the cells,
\* the rows after it over the samples
Tables(n) ==
    UNION {
      {[cols |-> cs, rows |-> <<TableRow(cs, a, b, Str(<<"N", "/", "A">>))>> \o rest] :
          a \in (IF "Last Price" \in cs THEN NumCells ELSE {NaN}),
          b \in (IF "Percent Of Account" \in cs THEN NumSample ELSE {NaN}),
          rest \in SeqsUpTo({TableRow(cs, x, x, Str(<<"1", "$">>)) : x \in NumSample},
                            n - 1)}
      : cs \in TableCols }

NumInit ==
    /\ main_df \in Tables(MaxRows)
    /\ normalized = main_df
    /\ npc = 0

\* process_data line 226
normalize_numeric_columns ==
    /\ npc = 0
    /\ normalized' = remove_non_numeric_characters(normalized, numeric_columns)
    /\ npc' = 1
    /\ UNCHANGED <<main_df, pipeVars, cleanVars, fmtVars>>

\* process_data line 227
normalize_percentage_columns ==
    /\ npc = 1
    /\ normalized' = remove_non_numeric_characters(normalized, percentage_columns)
    /\ npc' = 2
    /\ UNCHANGED <<main_df, pipeVars, cleanVars, fmtVars>>

NumNext == normalize_numeric_columns \/ normalize_percentage_columns

InitNumeric == NumInit /\ PipeIdle /\ CleanIdle /\ FmtIdle

SpecNumeric == InitNumeric /\ [][NumNext]_vars

\* ------------------------------------------------ utils.py: ExcelFormatter
\* the account-identifier columns that combine_spreadsheets.py:10 imports
\* from config; config.py of this revision does not define the name
account_columns == <<"Account Number">>

\* a row-one cell: a text (name with lpad blanks before and rpad after it)
\* or blank
Hdr(name, lpad, rpad) == [t |-> "str", name |-> name, lpad |-> lpad, rpad |-> rpad]
NoHdr == [t |-> "nan", name |-> "", lpad |-> 0, rpad |-> 0]

\* ws.Cells(1, i).Value == heading
HeaderEquals(h, heading) == h.t = "str" /\ h.lpad = 0 /\ h.rpad = 0 /\ h.name = heading

\* cell_value and cell_value.strip() == heading (utils.py:74)
HeaderStripEquals(h, heading) == h.t = "str" /\ h.name = heading

\* variant of get_column_index_by_heading that compares the trimmed header
get_column_index_by_heading_trimmed(w, heading) ==
    LET hit == {i \in DOMAIN w.headers : HeaderStripEquals(w.headers[i], heading)}
    IN IF hit = {} THEN 0 ELSE CHOOSE i \in hit : \A j \in hit : i <= j

\* get_column_index_by_heading(ws, heading), lines 91-98: the first column
\* whose row-one cell equals heading; 0 stands for None
get_column_index_by_heading(w, heading) ==
    LET hit == {i \in DOMAIN w.headers : HeaderEquals(w.headers[i], heading)}
    IN IF hit = {} THEN 0 ELSE CHOOSE i \in hit : \A j \in hit : i <= j

RECURSIVE format_numeric_columns(_, _)
\* format_numeric_columns(ws, columns), lines 20-24
format_numeric_columns(w, columns) ==
    IF columns = <<>> THEN w
    ELSE LET col_index == get_column_index_by_heading(w, Head(columns))
             w2 == IF col_index # 0
                   THEN [w EXCEPT !.fmt[col_index] = "$#,##0.00;[Red]($#,##0.00)"]
                   ELSE w
         IN format_numeric_columns(w2, Tail(columns))

\* variant of PercentRows that stops one row early
PercentRows_short(n) == 1..(n - 1)

\* range(2, ws.UsedRange.Rows.Count + 1) (line 41) as indices of the n data rows
PercentRows(n) == 1..n

RECURSIVE DivideColumn(_, _, _)
\* lines 41-44 for one column: divide the numeric cells from row r down;
\* a text cell raises TypeError and leaves the rows above it divided
DivideColumn(w, j, r) ==
    IF r \notin PercentRows(Len(w.data)) THEN [w |-> w, err |-> NoError]
    ELSE LET cell == w.data[r][j]
         IN IF cell.t = "nan" THEN DivideColumn(w, j, r + 1)
            ELSE IF cell.t = "str"
            THEN [w |-> w, err |-> "TypeError: unsupported operand type(s) for /: 'str' and 'int'"]
            ELSE DivideColumn([w EXCEPT !.data[r][j] = Normal(cell.m, cell.e + 2)], j, r + 1)

RECURSIVE format_percentage_columns(_, _)
\* format_percentage_columns(ws, columns), lines 37-48
format_percentage_columns(w, columns) ==
    IF columns = <<>> THEN [w |-> w, err |-> NoError]
    ELSE LET col_index == get_column_index_by_heading(w, Head(columns))
         IN IF col_index = 0 THEN format_percentage_columns(w, Tail(columns))
            ELSE LET d == DivideColumn(w, col_index, 1)
                 IN IF d.err # NoError THEN d
                    ELSE format_percentage_columns(
                             [d.w EXCEPT !.fmt[col_index] = "0.00%"], Tail(columns))

\* freeze_panes(target_workbook), lines 57-59
freeze_panes(w) == [w EXCEPT !.frozen = TRUE]

RECURSIVE autofit_columns_by_heading(_, _)
\* autofit_columns_by_heading(ws, headings), lines 68-77
autofit_columns_by_heading(w, headings) ==
    IF headings = <<>> THEN w
    ELSE LET hit == {i \in DOMAIN w.headers : HeaderStripEquals(w.headers[i], Head(headings))}
             w2 == IF hit = {} THEN w
                   ELSE [w EXCEPT !.autofit = @ \cup {CHOOSE i \in hit : \A j \in hit : i <= j}]
         IN autofit_columns_by_heading(w2, Tail(headings))

\* ---- the sheets the formatter is applied to: what to_excel wrote from a
\* table with distinct column labels, after the macro ran
HeaderCells == {Hdr("Last Price", 0, 0), Hdr("Percent Of Account", 0, 0),
                Hdr("Percent Of Account", 0, 1), Hdr("Account Number", 0, 0),
                Hdr("Symbol", 0, 0), NoHdr}

PctCells == {Num(125, 1), NaN, Str(<<"n", "/", "a">>)}

HeaderRows ==
    {h \in SeqsUpTo(HeaderCells, MaxCols) : \A i, j \in DOMAIN h : i # j => h[i] # h[j]}

\* the cells a column may hold: the percentage columns vary, the others hold 7
ColumnCells(h) == IF h.t = "str" /\ h.name = "Percent Of Account" THEN PctCells
                  ELSE {Num(7, 0)}

SheetsOf(h) ==
    {[headers |-> h, data |-> d, fmt |-> [i \in DOMAIN h |-> "General"],
      autofit |-> {}, frozen |-> FALSE] :
        d \in UNION {[1..n -> {r \in [DOMAIN h -> PctCells \cup {Num(7, 0)}] :
                                 \A i \in DOMAIN h : r[i] \in ColumnCells(h[i])}] :
                     n \in 0..MaxRows}}

FmtInit ==
    /\ sheet0 \in UNION {SheetsOf(h) : h \in HeaderRows}
    /\ ws = sheet0
    /\ disk = sheet0
    /\ fpc = "numeric"
    /\ ferr = NoError
    /\ pct_calls = 0

\* process_data line 247
do_format_numeric_columns ==
    /\ fpc = "numeric"
    /\ ws' = format_numeric_columns(ws, numeric_columns)
    /\ fpc' = "percentage"
    /\ UNCHANGED <<sheet0, disk, ferr, pct_calls, pipeVars, cleanVars, numVars>>

\* process_data line 248; an exception goes to the handler of line 260
do_format_percentage_columns ==
    /\ fpc = "percentage"
    /\ LET r == format_percentage_columns(ws, percentage_columns)
       IN /\ ws' = r.w
          /\ ferr' = r.err
          /\ fpc' = IF r.err = NoError THEN "freeze" ELSE "except"
    /\ pct_calls' = pct_calls + 1
    /\ UNCHANGED <<sheet0, disk, pipeVars, cleanVars, numVars>>

\* process_data line 249
do_freeze_panes ==
    /\ fpc = "freeze"
    /\ ws' = freeze_panes(ws)
    /\ fpc' = "autofit"
    /\ UNCHANGED <<sheet0, disk, ferr, pct_calls, pipeVars, cleanVars, numVars>>

\* process_data lines 250-253
do_autofit_columns_by_heading ==
    /\ fpc = "autofit"
    /\ ws' = autofit_columns_by_heading(ws, numeric_columns \o percentage_columns \o account_columns)
    /\ fpc' = "save"
    /\ UNCHANGED <<sheet0, disk, ferr, pct_calls, pipeVars, cleanVars, numVars>>

\* process_data lines 256-258: target_workbook.Save()
do_save ==
    /\ fpc = "save"
    /\ disk' = ws
    /\ fpc' = "done"
    /\ UNCHANGED <<sheet0, ws, ferr, pct_calls, pipeVars, cleanVars, numVars>>

\* process_data lines 260-276 after a formatting error:
\* target_workbook.Close(SaveChanges=False) leaves the file as it was written
format_except ==
    /\ fpc = "except"
    /\ fpc' = "failed"
    /\ UNCHANGED <<sheet0, ws, disk, ferr, pct_calls, pipeVars, cleanVars, numVars>>

FmtNext ==
    \/ do_format_numeric_columns
    \/ do_format_percentage_columns
    \/ do_freeze_panes
    \/ do_autofit_columns_by_heading
    \/ do_save
    \/ format_except

InitFormat == FmtInit /\ PipeIdle /\ CleanIdle /\ NumIdle

SpecFormat == InitFormat /\ [][FmtNext]_vars

\* ============================================================== claims
InCombine == entry = "combine_and_clean_sheets"

\* the entries of the folder with a supported extension, as a set of indices
Supported == {i \in DOMAIN entries : lower(entries[i].suffix) \in valid_extensions}

\* the supported entries that read and clean without error
Loadable == {i \in Supported : entries[i].loads}

RECURSIVE Ascending(_, _)
\* the members of S not below i, in ascending order
Ascending(S, i) ==
    IF S = {} THEN <<>>
    ELSE IF i \in S THEN <<i>> \o Ascending(S \ {i}, i + 1)
    ELSE Ascending(S, i + 1)

Range(s) == {s[i] : i \in DOMAIN s}

\* the for loop of process_files has run to its end
LoopOver ==
    /\ InCombine
    /\ files # <<>>
    /\ pc \notin {"validate_inputs", "process_files"}
    /\ ~(pc = "process_files_loop" /\ idx <= Len(files))

NoValidFilesErrors == {"No valid files found in folder",
                       "No valid files were found to process"}

ValidateErrors == {"Input folder not found", "Exclusion file not found",
                   "Macro file not found", "Output directory does not exist"}

NothingProduced ==
    /\ output_file = "absent"
    /\ \A k \in DOMAIN apps : apps[k] = "none"
    /\ macro_workbook = "none"
    /\ target_workbook = "none"
    /\ macro_runs = 0

\* C1: in process_files, with two or more supported files in the folder, each
\* file that fails to read or clean is logged and skipped: the loop visits
\* every supported file, the list returned holds exactly the files that
\* loaded, once each and in iteration order, and the log holds one record per
\* failing file, wherever the failing files stand.
C1_PerFileFailureSkipped ==
    (LoopOver /\ Cardinality(Supported) >= 2) =>
        /\ idx = Len(files) + 1
        /\ all_data = Ascending(Loadable, 1)
        /\ SelectSeq(error_log, LAMBDA r : r[1] = "process_files")
             = [k \in 1..Cardinality(Supported \ Loadable) |->
                  <<"process_files", Ascending(Supported \ Loadable, 1)[k]>>]
        /\ (Loadable # {} => pending \notin NoValidFilesErrors \cup {"read error"})

\* C1 witness: the first supported file failed, a later one loaded, and
\* process_files has returned the loaded one
C1_Witness ==
    /\ LoopOver
    /\ Cardinality(Supported) >= 2
    /\ ~entries[files[1]].loads
    /\ all_data # <<>>
    /\ pc = "excel_application"

\* C2: in a folder where no supported file loads (none has a supported
\* extension, or each one fails), zero row-sets are loaded and
\* combine_and_clean_sheets fails with a "no valid files" error with no
\* output file written, no Excel instance acquired and no workbook opened;
\* and the loading stage fails the batch only when zero row-sets loaded.
C2_ZeroRowSetsAborts ==
    /\ (/\ InCombine
        /\ folder = "dir"
        /\ Loadable = {}
        /\ pc \notin {"validate_inputs", "process_files", "process_files_loop"}
        /\ validate_inputs(folder, exclusion_exists, macro_exists, outdir_exists) = NoError)
       => /\ all_data = <<>>
          /\ pc \in {"combine_except", "done"}
          /\ pending \in NoValidFilesErrors
          /\ (pc = "done" => result \in NoValidFilesErrors)
          /\ NothingProduced
    /\ (/\ InCombine
        /\ pc \in {"combine_except", "done"}
        /\ "process_files" \in Range(trace)
        /\ "excel_application" \notin Range(trace))
       => (all_data = <<>> /\ Loadable = {})

\* C2 witness: every supported file failed to parse and the call has ended
C2_Witness ==
    /\ InCombine
    /\ Supported # {}
    /\ Loadable = {}
    /\ pc = "done"
    /\ result = "No valid files were found to process"

\* C3: with the input folder, the exclusion file, the macro file or the
\* output directory missing, combine_and_clean_sheets raises one ValueError
\* naming a missing path, before process_files runs: no file is read, no
\* output is written and no Excel instance is acquired.
C3_MissingPathFailsFirst ==
    (/\ InCombine
     /\ pc # "validate_inputs"
     /\ (folder = "missing" \/ ~exclusion_exists \/ ~macro_exists \/ ~outdir_exists))
    => /\ pc \in {"combine_except", "done"}
       /\ pending \in ValidateErrors
       /\ (pending = "Input folder not found" => folder = "missing")
       /\ (pending = "Exclusion file not found" => ~exclusion_exists)
       /\ (pending = "Macro file not found" => ~macro_exists)
       /\ (pending = "Output directory does not exist" => ~outdir_exists)
       /\ "process_files" \notin Range(trace)
       /\ files = <<>> /\ idx = 0 /\ all_data = <<>>
       /\ NothingProduced
       /\ (pc = "done" => /\ result = pending
                          /\ error_log = <<<<"combine_and_clean_sheets", pending>>>>)

\* C3 witness: only the output directory is missing and the call has failed
C3_Witness ==
    /\ InCombine
    /\ pc = "done"
    /\ folder = "dir" /\ exclusion_exists /\ macro_exists /\ ~outdir_exists
    /\ result = "Output directory does not exist"

\* the stages of a run, in the order they were executed
Stages == SelectSeq(trace, LAMBDA t : t \in {"write", "open_macro", "open_target",
                                             "run_macro", "format", "save"})

\* C6: when opening a workbook or the Run call raises, the call that invoked
\* the macro ends with an error for its caller: it does not return normally,
\* the macro was run at most once, and the target was not saved afterwards.
C6_MacroFailurePropagates ==
    (pc = "done" /\ faults \cap {"open_macro", "open_target", "run"} # {})
    => /\ result \notin {"none", "returned"}
       /\ macro_runs <= 1
       /\ output_file # "saved"

\* C7: when a call has ended, every Excel instance it started is visible or
\* was quit, and the macro workbook, if it was opened, was closed with
\* SaveChanges=False.
C7_EditorEndsDefined ==
    pc = "done" =>
        /\ \A k \in DOMAIN apps : apps[k] \in {"none", "visible", "quit"}
        /\ macro_workbook \in {"none", "closed_nosave"}

\* C8: a run through main() with the four paths present, a file that loads
\* and no failing Excel call writes the table, opens the two workbooks, runs
\* the macro, formats and saves, in that order, and returns the output path.
C8_MainRunSucceeds ==
    (/\ entry = "main"
     /\ pc = "done"
     /\ validate_inputs(folder, exclusion_exists, macro_exists, outdir_exists) = NoError
     /\ folder = "dir"
     /\ Loadable # {}
     /\ faults = {})
    => /\ result = "returned"
       /\ Stages = <<"write", "open_macro", "open_target", "run_macro", "format", "save">>
       /\ macro_runs = 1
       /\ output_file = "saved"

\* t is s without its leading and trailing blanks
IsTrimOf(t, s) ==
    /\ (t # <<>> => t[1] # " " /\ t[Len(t)] # " ")
    /\ \E i \in 0..Len(s) :
         /\ i + Len(t) <= Len(s)
         /\ SubSeq(s, i + 1, i + Len(t)) = t
         /\ \A k \in (1..i) \cup ((i + Len(t) + 1)..Len(s)) : s[k] = " "

\* the rows of df whose Account Number text begins with a prefix of the list
Excluded(r) ==
    /\ r["Account Number"].t = "str"
    /\ \E k \in DOMAIN prefixes : startswith(r["Account Number"].s, prefixes[k])

\* C4: for a row-set with an Account Number column, clean_dataframe returns
\* the rows whose Account Number begins with no configured prefix (blank ones
\* included), in their order, each cell unchanged except that texts are
\* trimmed, and none of the rows that begin with a prefix.
C4_CleanKeepsUnmatchedRows ==
    (cleaned.done /\ "Account Number" \in df.cols) =>
        LET kept == SelectSeq(df.rows, LAMBDA r : ~Excluded(r))
        IN /\ ~cleaned.err
           /\ Len(cleaned.rows) = Len(kept)
           /\ \A k \in DOMAIN kept : \A c \in df.cols :
                IF kept[k][c].t = "str"
                THEN /\ cleaned.rows[k][c].t = "str"
                     /\ IsTrimOf(cleaned.rows[k][c].s, kept[k][c].s)
                ELSE cleaned.rows[k][c] = kept[k][c]

\* C4 restricted to row-sets whose cells are texts or blanks, with a text in
\* each column: the case in which the code does what C4 says
C4_TextOnly ==
    (/\ cleaned.done
     /\ "Account Number" \in df.cols
     /\ \A i \in DOMAIN df.rows : \A c \in df.cols : df.rows[i][c].t # "num"
     /\ \A c \in df.cols : c \in ObjectCols(df))
    => LET kept == SelectSeq(df.rows, LAMBDA r : ~Excluded(r))
       IN /\ ~cleaned.err
          /\ Len(cleaned.rows) = Len(kept)
          /\ \A k \in DOMAIN kept : \A c \in df.cols :
               IF kept[k][c].t = "str"
               THEN /\ cleaned.rows[k][c].t = "str"
                    /\ IsTrimOf(cleaned.rows[k][c].s, kept[k][c].s)
               ELSE cleaned.rows[k][c] = kept[k][c]

RECURSIVE Pow10(_)
Pow10(n) == IF n = 0 THEN 1 ELSE 10 * Pow10(n - 1)

\* the digits, periods and minus signs of a text, in their order
RECURSIVE KeptChars(_)
KeptChars(s) ==
    IF s = <<>> THEN <<>>
    ELSE IF Head(s) \in Digits \/ Head(s) = "." \/ Head(s) = "-"
         THEN <<Head(s)>> \o KeptChars(Tail(s))
         ELSE KeptChars(Tail(s))

\* k is a numeral: a minus sign at most in front, one period at most, a digit
WellFormed(k) ==
    /\ \A i \in DOMAIN k : k[i] = "-" => i = 1
    /\ Cardinality({i \in DOMAIN k : k[i] = "."}) <= 1
    /\ \E i \in DOMAIN k : k[i] \in Digits

\* number of digits of k after its period
FracLen(k) ==
    Cardinality({i \in DOMAIN k : k[i] \in Digits /\ \E j \in 1..(i - 1) : k[j] = "."})

\* the digits of k read as one integer, by place value
DigitsValue(k) ==
    LET pos == {i \in DOMAIN k : k[i] \in Digits}
        place(i) == Cardinality({j \in pos : j > i})
        RECURSIVE Sum(_)
        Sum(S) == IF S = {} THEN 0
                  ELSE LET i == CHOOSE x \in S : TRUE
                       IN DigitVal(k[i]) * Pow10(place(i)) + Sum(S \ {i})
    IN Sum(pos)

\* b is the cell the text s normalises to
NormalizesTo(s, b) ==
    LET k == KeptChars(s)
    IN IF WellFormed(k)
       THEN /\ b.t = "num"
            /\ b.m * Pow10(FracLen(k))
                 = (IF k[1] = "-" THEN 0 - DigitsValue(k) ELSE DigitsValue(k)) * Pow10(b.e)
       ELSE b = NaN

\* the columns normalised after n calls
Configured(n) ==
    {numeric_columns[k] : k \in DOMAIN numeric_columns}
      \cup (IF n >= 2 THEN {percentage_columns[k] : k \in DOMAIN percentage_columns} ELSE {})

\* C5: after remove_non_numeric_characters, each text of a configured column
\* present in the table is the number its digits, periods and minus signs
\* spell ("$1,234.56" gives 1234.56), or blank when they spell none ("N/A",
\* "1-2", "1.2.3"), never zero and never an error; numbers, blanks and the
\* cells of all other columns are as before, and no column is added for a
\* configured name the table lacks.
C5_NumericNormalization ==
    /\ normalized.cols = main_df.cols
    /\ Len(normalized.rows) = Len(main_df.rows)
    /\ \A i \in DOMAIN main_df.rows : \A c \in main_df.cols :
         IF c \in Configured(npc) /\ npc >= 1 /\ main_df.rows[i][c].t = "str"
         THEN NormalizesTo(main_df.rows[i][c].s, normalized.rows[i][c])
         ELSE normalized.rows[i][c] = main_df.rows[i][c]
    /\ (npc >= 1 =>
          \A i \in DOMAIN main_df.rows :
            /\ ("Last Price" \in main_df.cols /\ main_df.rows[i]["Last Price"] = Str(<<"$", "1", ",", "2", "3", "4", ".", "5", "6">>))
                 => normalized.rows[i]["Last Price"] = Num(123456, 2)
            /\ ("Last Price" \in main_df.cols
                  /\ main_df.rows[i]["Last Price"] \in {Str(<<"N", "/", "A">>), Str(<<"1", "-", "2">>), Str(<<"1", ".", "2", ".", "3">>)})
                 => normalized.rows[i]["Last Price"] = NaN)

\* C5 witness: both calls made on a table with a "$1,234.56" price, an "N/A"
\* percentage and a Symbol column
C5_Witness ==
    /\ npc = 2
    /\ main_df.cols = {"Last Price", "Percent Of Account", "Symbol"}
    /\ main_df.rows[1]["Last Price"] = Str(<<"$", "1", ",", "2", "3", "4", ".", "5", "6">>)
    /\ main_df.rows[1]["Percent Of Account"] = Str(<<"N", "/", "A">>)
    /\ normalized.rows[1]["Last Price"] = Num(123456, 2)
    /\ normalized.rows[1]["Percent Of Account"] = NaN
    /\ normalized.rows[1]["Symbol"] = Str(<<"N", "/", "A">>)

Names(q) == {q[k] : k \in DOMAIN q}

\* column j of the sheet carries exactly a percentage / numeric name in row one
PctExact(j) == \E n \in Names(percentage_columns) : HeaderEquals(sheet0.headers[j], n)
NumExact(j) == \E n \in Names(numeric_columns) : HeaderEquals(sheet0.headers[j], n)

\* b is a divided by 100
DividedOnce(a, b) == b.t = "num" /\ b.m * Pow10(a.e) * 100 = a.m * Pow10(b.e)

PercentageDone == fpc \in {"freeze", "autofit", "save", "done"}

\* C9: format_percentage_columns is called at most once on a sheet; no cell
\* is ever divided twice; once the call has returned, every numeric data cell
\* of every column whose header is a percentage name is its value divided by
\* 100 (12.5 is 0.125), blank cells are blank, row one is as it was, and the
\* cells of all other columns are as they were; that is what is saved.
C9_PercentDividedOnce ==
    /\ pct_calls <= 1
    /\ ws.headers = sheet0.headers
    /\ Len(ws.data) = Len(sheet0.data)
    /\ \A r \in DOMAIN sheet0.data : \A j \in DOMAIN sheet0.headers :
         LET a == sheet0.data[r][j]
             b == ws.data[r][j]
         IN /\ (~PctExact(j) \/ a.t # "num" \/ pct_calls = 0) => b = a
            /\ b = a \/ DividedOnce(a, b)
            /\ (PctExact(j) /\ a.t = "num" /\ PercentageDone) =>
                 /\ DividedOnce(a, b)
                 /\ (a = Num(125, 1) => b = Num(125, 3))
    /\ (fpc = "done" => disk.data = ws.data)

\* C9 witness: a saved sheet with a percentage column holding 12.5 and a
\* blank, now 0.125 and a blank, beside a column that kept its 7
C9_Witness ==
    /\ fpc = "done"
    /\ \E j \in DOMAIN sheet0.headers :
         /\ PctExact(j)
         /\ Len(sheet0.data) = 2
         /\ sheet0.data[1][j] = NaN /\ disk.data[1][j] = NaN
         /\ sheet0.data[2][j] = Num(125, 1) /\ disk.data[2][j] = Num(125, 3)
    /\ \E j \in DOMAIN sheet0.headers : ~PctExact(j) /\ disk.data[2][j] = Num(7, 0)

AllConfigured == Names(numeric_columns) \cup Names(percentage_columns) \cup Names(account_columns)

Currency == "$#,##0.00;[Red]($#,##0.00)"

FirstTrimmed(j, n) ==
    /\ HeaderStripEquals(ws.headers[j], n)
    /\ \A i \in 1..(j - 1) : ~HeaderStripEquals(ws.headers[i], n)

C11_NoOpWithoutAccountColumn ==
    (cleaned.done /\ "Account Number" \notin df.cols) =>
        /\ ~cleaned.err
        /\ cleaned.rows = df.rows

\* C11: for a row-set without an Account Number column, clean_dataframe (of
\* either module) raises nothing and removes no row: it returns as many rows
\* as it was given, in their order, each text cell trimmed of its surrounding
\* blanks and each cell of a column that holds no text as it was.
C11_NoRowRemovedWithoutAccountColumn ==
    (cleaned.done /\ "Account Number" \notin df.cols) =>
        /\ ~cleaned.err
        /\ Len(cleaned.rows) = Len(df.rows)
        /\ \A k \in DOMAIN df.rows : \A c \in df.cols :
             /\ df.rows[k][c].t = "str" =>
                  /\ cleaned.rows[k][c].t = "str"
                  /\ IsTrimOf(cleaned.rows[k][c].s, df.rows[k][c].s)
             /\ c \notin ObjectCols(df) => cleaned.rows[k][c] = df.rows[k][c]

\* a two-row Symbol-only row-set cleaned by utils.clean_dataframe: the text
\* with a trailing blank came back trimmed, and no row was removed
C11_Witness ==
    /\ cleaned.done /\ ~cleaned.err
    /\ cleaner = "utils"
    /\ df.cols = {"Symbol"}
    /\ prefixes = startsWithColumns
    /\ Len(df.rows) = 2 /\ Len(cleaned.rows) = 2
    /\ df.rows[1]["Symbol"] = Str(<<"x", " ">>)
    /\ cleaned.rows[1]["Symbol"] = Str(<<"x">>)
    /\ cleaned.rows[2]["Symbol"] = Str(<<"x">>)

\* the macro step failed with the target workbook open: Application.Run
\* raised, or the call of process_data line 241 raised
MacroStepFailed ==
    /\ target_workbook # "none"
    /\ \/ "run" \in faults
       \/ "call_run_macro" \in Range(trace)

\* C12: when a call has ended in which the macro step failed after the target
\* workbook was opened, the caller got an error, the target workbook was
\* closed with SaveChanges=False and the output file was not saved; and an
\* output file that was saved belongs to a call that returned normally and
\* had formatted the sheet before it saved.
C12_FailureDiscardsChanges ==
    /\ (pc = "done" /\ MacroStepFailed) =>
           /\ result \notin {"none", "returned"}
           /\ target_workbook = "closed_nosave"
           /\ output_file # "saved"
    /\ (pc = "done" /\ output_file = "saved") =>
           /\ result = "returned"
           /\ \E i, j \in DOMAIN trace :
                i < j /\ trace[i] = "format" /\ trace[j] = "save"

\* C12 restricted to the formatting steps of process_data (lines 244-276):
\* when a step has raised, the sheet in the output file is the one that was
\* written, however many cells the step had divided in Excel; the file holds
\* another sheet only after the four steps and Save.
C12_FormatFailureDiscards ==
    /\ fpc \in {"except", "failed"} => ferr # NoError /\ disk = sheet0
    /\ disk # sheet0 => fpc = "done" /\ ferr = NoError /\ disk = ws
====
